---- MODULE Spec2Model ----
(***************************************************************************)
(* Model of scripts/find-saturation.py: the k6 CSV is read row by row into *)
(* per-second buckets (load_k6_csv), the load steps are generated and      *)
(* aggregated (aggregate_by_step), the step statistics are scanned for the *)
(* saturation point (find_saturation_point) and main() reports the verdict *)
(* through files and the process exit status.  The second program,        *)
(* scripts/analyze-results.py, is modelled further down on variables of    *)
(* its own; each specification runs one of the two programs and leaves the *)
(* variables of the other untouched.                                       *)
(*                                                                         *)
(* Numbers: durations, thresholds and rates are integers of the model;     *)
(* the two quotients the script computes in floating point (err_pct and    *)
(* rps_real) are kept as exact fractions [n, d] with d > 0 and compared by *)
(* cross multiplication.  A timestamp is held in tenths of a second, so    *)
(* that int(ts_raw) is a real truncation.  last_ok and first_saturated     *)
(* are references to elements of the step list: they are modelled as the   *)
(* 1-based position of the element, 0 standing for None.                   *)
(***************************************************************************)
EXTENDS Integers, Sequences, FiniteSets, TLC

\* find-saturation.py
VARIABLES pc, csv_exists, args, by_second, steps, target_rps, t_offset,
          results, i, last_ok, first_saturated, outcome, exit_status,
          rps_line, files

\* analyze-results.py
VARIABLES apc, summary_csv, data, baseline_power, metrics, table,
          analyze_exit

svars == <<pc, csv_exists, args, by_second, steps, target_rps, t_offset,
           results, i, last_ok, first_saturated, outcome, exit_status,
           rps_line, files>>

avars == <<apc, summary_csv, data, baseline_power, metrics, table,
           analyze_exit>>

vars == <<svars, avars>>

(***************************************************************************)
(* Bounds of the model.                                                    *)
(***************************************************************************)
\* usable rows (samples) of a CSV file
MaxRows == 3
\* last second a row of an ordinary trace can carry
MaxSec == 2
\* samples of each kind in the bucket of a pre-loaded trace
MaxPooled == 4
\* last second of the long pre-loaded trace
LongSpan == 150

(***************************************************************************)
(* Program constants.                                                      *)
(***************************************************************************)
\* while target_rps <= args.start_rps + 100 * args.step_rps
SafetySteps == 100
\* if target_rps > 100000: break
RpsCeiling == 100000

WANTED == {"http_req_duration", "http_req_failed", "http_reqs"}

(***************************************************************************)
(* Inputs: command lines and CSV rows.                                     *)
(***************************************************************************)
\* the defaults of parse_args, thresholds included: the scenario of the
\* specification (warm-up 10, step 30, ramp 2, start 200, increment 200)
DefaultArgs ==
    [warmup |-> 10, step_duration |-> 30, ramp_duration |-> 2,
     start_rps |-> 200, step_rps |-> 200,
     err_threshold |-> 1, p99_threshold |-> 1000]

\* small command lines: every option is type=int (any sign) or type=float
SmallArgs ==
    [warmup : {0, 1}, step_duration : {0, 1}, ramp_duration : {0, 1},
     start_rps : {2}, step_rps : {-1, 0, 1},
     err_threshold : {50}, p99_threshold : {10}]

ArgsSet == SmallArgs \cup {DefaultArgs}

\* values a row of each metric carries in the model
ValuesOf(metric) ==
    CASE metric = "http_req_duration" -> {5, 10}
      [] metric = "http_req_failed"   -> {0, 1}
      [] OTHER                        -> {1}

\* rows of an ordinary trace: seconds 0..MaxSec, with and without a
\* fractional part; parses = FALSE is a row whose timestamp or value
\* float() rejects
SmallRows ==
    { [metric_name |-> m, timestamp |-> 10 * s + f, metric_value |-> v,
       parses |-> p] :
        m \in WANTED \cup {"vus"}, s \in 0..MaxSec, f \in {0, 5},
        v \in {0, 1, 5, 10}, p \in BOOLEAN }

\* rows of the long trace (seconds 100..179) read under the default options
LongRows ==
    { [metric_name |-> "http_req_duration", timestamp |-> 10 * s,
       metric_value |-> 5, parses |-> TRUE] : s \in {100, 150, 175, 179} }

RowsFor(a) ==
    IF a = DefaultArgs
    THEN LongRows
    ELSE { r \in SmallRows : r.metric_value \in ValuesOf(r.metric_name) }

(***************************************************************************)
(* Helpers.                                                                *)
(***************************************************************************)
Min(S) == CHOOSE x \in S : \A y \in S : x <= y
Max(S) == CHOOSE x \in S : \A y \in S : x >= y

\* Python's // : floor division, for either sign of the divisor
FloorDiv(a, b) == IF b > 0 THEN a \div b ELSE (0 - a) \div (0 - b)

RECURSIVE SumSeq(_)
SumSeq(s) == IF s = <<>> THEN 0 ELSE Head(s) + SumSeq(Tail(s))

\* insertion of x into an ascending sequence
RECURSIVE Insert(_, _)
Insert(x, s) ==
    IF s = <<>> THEN <<x>>
    ELSE IF x <= Head(s) THEN <<x>> \o s
    ELSE <<Head(s)>> \o Insert(x, Tail(s))

\* variant: the pooled samples are indexed without being sorted
Unsorted(s) == s

\* sorted(durations)
RECURSIVE Sorted(_)
Sorted(s) == IF s = <<>> THEN <<>> ELSE Insert(Head(s), Sorted(Tail(s)))

\* comparisons of the fractions that stand for the script's floats
FracGE(q, k) == q.n >= k * q.d
FracLT(q, k) == q.n < k * q.d

(***************************************************************************)
(* load_k6_csv                                                             *)
(***************************************************************************)
\* the defaultdict factory
EmptyBucket == [durations |-> <<>>, failed |-> <<>>, reqs |-> 0]

\* number of samples the buckets hold
TraceSize(bs) ==
    LET RECURSIVE Count(_)
        Count(S) ==
            IF S = {} THEN 0
            ELSE LET t == CHOOSE x \in S : TRUE
                 IN Len(bs[t].durations) + Len(bs[t].failed) + bs[t].reqs
                    + Count(S \ {t})
    IN Count(DOMAIN bs)

\* one iteration of "for row in reader" on the mapping bs
ReadRowInto(bs, row) ==
    IF row.metric_name \notin WANTED THEN bs
    ELSE IF ~row.parses THEN bs
    ELSE
      LET ts_sec == row.timestamp \div 10
          old == IF ts_sec \in DOMAIN bs THEN bs[ts_sec] ELSE EmptyBucket
          new == CASE row.metric_name = "http_req_duration" ->
                        [old EXCEPT !.durations = Append(@, row.metric_value)]
                   [] row.metric_name = "http_req_failed" ->
                        [old EXCEPT !.failed = Append(@, row.metric_value)]
                   [] row.metric_name = "http_reqs" ->
                        [old EXCEPT !.reqs = @ + 1]
      IN [t \in DOMAIN bs \cup {ts_sec} |-> IF t = ts_sec THEN new ELSE bs[t]]

(***************************************************************************)
(* aggregate_by_step                                                       *)
(***************************************************************************)
t_min == Min(DOMAIN by_second)
t_max == Max(DOMAIN by_second)

\* variant: the window is opened at the start of the trace, not at the offset
NewStepFromTraceStart(target, offset) ==
    [target_rps |-> target,
     t_start    |-> t_min,
     t_end      |-> t_min + offset + args.step_duration]

\* the dict appended to steps for a target rate at the current offset
NewStep(target, offset) ==
    [target_rps |-> target,
     t_start    |-> t_min + offset,
     t_end      |-> t_min + offset + args.step_duration]

\* while target_rps <= args.start_rps + 100 * args.step_rps
LoopGuard(target) ==
    target <= args.start_rps + SafetySteps * args.step_rps

\* variant: the loop is left one period later (> for >=)
SpanBreakStrict(target) ==
    target > FloorDiv(t_max - t_min,
                      args.step_duration + args.ramp_duration)
             * args.step_rps + args.start_rps

\* if target_rps >= (t_max - t_min) // (step_dur + ramp_dur) * step_rps + start_rps
SpanBreak(target) ==
    target >= FloorDiv(t_max - t_min,
                       args.step_duration + args.ramp_duration)
              * args.step_rps + args.start_rps

\* the samples of the buckets of seconds t..t_end, in time order
RECURSIVE PoolDurations(_, _, _)
PoolDurations(bs, t, t_end) ==
    IF t > t_end THEN <<>>
    ELSE (IF t \in DOMAIN bs THEN bs[t].durations ELSE <<>>)
         \o PoolDurations(bs, t + 1, t_end)

RECURSIVE PoolFailed(_, _, _)
PoolFailed(bs, t, t_end) ==
    IF t > t_end THEN <<>>
    ELSE (IF t \in DOMAIN bs THEN bs[t].failed ELSE <<>>)
         \o PoolFailed(bs, t + 1, t_end)

RECURSIVE PoolReqs(_, _, _)
PoolReqs(bs, t, t_end) ==
    IF t > t_end THEN 0
    ELSE (IF t \in DOMAIN bs THEN bs[t].reqs ELSE 0)
         + PoolReqs(bs, t + 1, t_end)

\* variant: the rank below floor(p/100 * n) is taken
pctLowerRank(durations_sorted, p) ==
    LET n == Len(durations_sorted)
        idx == (p * n) \div 100 - 1
    IN durations_sorted[(IF idx < 0 THEN 0
                         ELSE IF idx < n - 1 THEN idx ELSE n - 1) + 1]

\* pct(p) on the sorted durations
pct(durations_sorted, p) ==
    LET n == Len(durations_sorted)
        idx == (p * n) \div 100
    IN durations_sorted[(IF idx < n - 1 THEN idx ELSE n - 1) + 1]

\* the dict appended to results for a step with duration samples
StepStats(bs, step) ==
    LET durations == PoolDurations(bs, step.t_start, step.t_end)
        failed == PoolFailed(bs, step.t_start, step.t_end)
        req_count == PoolReqs(bs, step.t_start, step.t_end)
        durations_sorted == Sorted(durations)
    IN [target_rps |-> step.target_rps,
        rps_real   |-> IF args.step_duration > 0
                       THEN [n |-> req_count, d |-> args.step_duration]
                       ELSE [n |-> 0, d |-> 1],
        p50_ms     |-> pct(durations_sorted, 50),
        p95_ms     |-> pct(durations_sorted, 95),
        p99_ms     |-> pct(durations_sorted, 99),
        err_pct    |-> IF failed # <<>>
                       THEN [n |-> SumSeq(failed) * 100, d |-> Len(failed)]
                       ELSE [n |-> 0, d |-> 1],
        req_count  |-> req_count,
        n_samples  |-> Len(durations_sorted)]

\* variant: the loop is left (break) at the first step without samples
RECURSIVE AggregateStepsStopsAtGap(_, _)
AggregateStepsStopsAtGap(bs, ss) ==
    IF ss = <<>> THEN <<>>
    ELSE IF PoolDurations(bs, Head(ss).t_start, Head(ss).t_end) = <<>>
         THEN <<>>
         ELSE <<StepStats(bs, Head(ss))>>
              \o AggregateStepsStopsAtGap(bs, Tail(ss))

\* "for step in steps": steps without duration samples are skipped
RECURSIVE AggregateSteps(_, _)
AggregateSteps(bs, ss) ==
    IF ss = <<>> THEN <<>>
    ELSE (IF PoolDurations(bs, Head(ss).t_start, Head(ss).t_end) = <<>>
          THEN <<>>
          ELSE <<StepStats(bs, Head(ss))>>)
         \o AggregateSteps(bs, Tail(ss))

(***************************************************************************)
(* find_saturation_point                                                   *)
(***************************************************************************)
\* variant: a step exactly on a threshold does not count as saturated
SaturatedStrict(s, err_thr, p99_thr) ==
    s.err_pct.n > err_thr * s.err_pct.d \/ s.p99_ms > p99_thr

\* if s['err_pct'] >= err_thr or s['p99_ms'] >= p99_thr
Saturated(s, err_thr, p99_thr) ==
    FracGE(s.err_pct, err_thr) \/ s.p99_ms >= p99_thr

(***************************************************************************)
(* main: exit statuses                                                     *)
(***************************************************************************)
\* variant: the two verdicts end with the same status
ExitStatusAlwaysZeroVerdict(o) ==
    CASE o \in {"missing", "empty", "mapping", "crash"} -> 1
      [] o \in {"sustainable", "saturated"} -> 0

\* the status the process ends with on each path of main
ExitStatusFor(o) ==
    CASE o = "missing"     -> 1   \* open() raises, uncaught: traceback, status 1
      [] o = "empty"       -> 1   \* sys.exit(1)
      [] o = "mapping"     -> 1   \* sys.exit(1)
      [] o = "crash"       -> 1   \* ZeroDivisionError, uncaught: status 1
      [] o = "sustainable" -> 0   \* sys.exit(0)
      [] o = "saturated"   -> 2   \* sys.exit(2)

Exit(o) ==
    /\ pc' = "exit"
    /\ outcome' = o
    /\ exit_status' = ExitStatusFor(o)

(***************************************************************************)
(* The state machine.                                                      *)
(***************************************************************************)
\* analyze-results.py is not running
AnalyzeIdle ==
    /\ apc = "off"
    /\ summary_csv = "absent"
    /\ data = <<>>
    /\ baseline_power = 0
    /\ metrics = <<>>
    /\ table = <<>>
    /\ analyze_exit = -1

Init ==
    /\ pc = "start"
    /\ csv_exists \in BOOLEAN
    /\ args \in ArgsSet
    /\ by_second = <<>>
    /\ steps = <<>>
    /\ target_rps = 0
    /\ t_offset = 0
    /\ results = <<>>
    /\ i = 0
    /\ last_ok = 0
    /\ first_saturated = 0
    /\ outcome = "running"
    /\ exit_status = -1
    /\ rps_line = <<>>
    /\ files = {}
    /\ AnalyzeIdle

\* main: load_k6_csv opens the file
OpenCsv ==
    /\ pc = "start"
    /\ csv_exists
    /\ pc' = "read"
    /\ UNCHANGED <<csv_exists, args, by_second, steps, target_rps, t_offset,
                   results, i, last_ok, first_saturated, outcome, exit_status,
                   rps_line, files>>
    /\ UNCHANGED avars

\* open() of an absent file raises FileNotFoundError, which nothing catches
OpenCsvMissing ==
    /\ pc = "start"
    /\ ~csv_exists
    /\ Exit("missing")
    /\ UNCHANGED <<csv_exists, args, by_second, steps, target_rps, t_offset,
                   results, i, last_ok, first_saturated, rps_line, files>>
    /\ UNCHANGED avars

\* one row of the reader
ReadRow ==
    /\ pc = "read"
    /\ TraceSize(by_second) < MaxRows
    /\ \E row \in RowsFor(args) :
          by_second' = ReadRowInto(by_second, row)
    /\ UNCHANGED <<pc, csv_exists, args, steps, target_rps, t_offset,
                   results, i, last_ok, first_saturated, outcome, exit_status,
                   rps_line, files>>
    /\ UNCHANGED avars

\* end of file: return dict(by_second)
EndOfCsv ==
    /\ pc = "read"
    /\ pc' = "loaded"
    /\ UNCHANGED <<csv_exists, args, by_second, steps, target_rps, t_offset,
                   results, i, last_ok, first_saturated, outcome, exit_status,
                   rps_line, files>>
    /\ UNCHANGED avars

\* main: if not by_second: sys.exit(1)
EmptyInput ==
    /\ pc = "loaded"
    /\ DOMAIN by_second = {}
    /\ Exit("empty")
    /\ UNCHANGED <<csv_exists, args, by_second, steps, target_rps, t_offset,
                   results, i, last_ok, first_saturated, rps_line, files>>
    /\ UNCHANGED avars

\* variant: the rate is not advanced after step 0
GenFirstStepNoIncrement ==
    /\ pc = "loaded"
    /\ DOMAIN by_second # {}
    /\ steps' = <<NewStep(args.start_rps, args.warmup)>>
    /\ t_offset' = args.warmup + args.step_duration
    /\ target_rps' = args.start_rps
    /\ pc' = "gen"
    /\ UNCHANGED <<csv_exists, args, by_second, results, i, last_ok,
                   first_saturated, outcome, exit_status, rps_line, files>>
    /\ UNCHANGED avars

\* aggregate_by_step up to the while loop: step 0 after the warm-up
GenFirstStep ==
    /\ pc = "loaded"
    /\ DOMAIN by_second # {}
    /\ steps' = <<NewStep(args.start_rps, args.warmup)>>
    /\ t_offset' = args.warmup + args.step_duration
    /\ target_rps' = args.start_rps + args.step_rps
    /\ pc' = "gen"
    /\ UNCHANGED <<csv_exists, args, by_second, results, i, last_ok,
                   first_saturated, outcome, exit_status, rps_line, files>>
    /\ UNCHANGED avars

\* one iteration of the while loop
GenNextStep ==
    /\ pc = "gen"
    /\ LoopGuard(target_rps)
    /\ args.step_duration + args.ramp_duration # 0
    /\ steps' = Append(steps, NewStep(target_rps, t_offset + args.ramp_duration))
    /\ t_offset' = t_offset + args.ramp_duration + args.step_duration
    /\ IF SpanBreak(target_rps)
       THEN /\ target_rps' = target_rps
            /\ pc' = "pool"
       ELSE /\ target_rps' = target_rps + args.step_rps
            /\ pc' = IF target_rps' > RpsCeiling THEN "pool" ELSE "gen"
    /\ UNCHANGED <<csv_exists, args, by_second, results, i, last_ok,
                   first_saturated, outcome, exit_status, rps_line, files>>
    /\ UNCHANGED avars

\* the iteration divides by step_dur + ramp_dur = 0: ZeroDivisionError
GenDivideByZero ==
    /\ pc = "gen"
    /\ LoopGuard(target_rps)
    /\ args.step_duration + args.ramp_duration = 0
    /\ Exit("crash")
    /\ UNCHANGED <<csv_exists, args, by_second, steps, target_rps, t_offset,
                   results, i, last_ok, first_saturated, rps_line, files>>
    /\ UNCHANGED avars

\* the while condition is false
GenLoopEnd ==
    /\ pc = "gen"
    /\ ~LoopGuard(target_rps)
    /\ pc' = "pool"
    /\ UNCHANGED <<csv_exists, args, by_second, steps, target_rps, t_offset,
                   results, i, last_ok, first_saturated, outcome, exit_status,
                   rps_line, files>>
    /\ UNCHANGED avars

\* variant: the buckets are read as by_second[t] on a defaultdict, which
\* creates an empty bucket for every second of a window that had none
AggregateTouchesBuckets ==
    /\ pc = "pool"
    /\ results' = AggregateSteps(by_second, steps)
    /\ by_second' =
          LET touched == UNION { steps[k].t_start..steps[k].t_end :
                                   k \in 1..Len(steps) }
          IN [t \in DOMAIN by_second \cup touched |->
                IF t \in DOMAIN by_second THEN by_second[t] ELSE EmptyBucket]
    /\ pc' = "aggregated"
    /\ UNCHANGED <<csv_exists, args, steps, target_rps, t_offset,
                   i, last_ok, first_saturated, outcome, exit_status,
                   rps_line, files>>
    /\ UNCHANGED avars

\* the aggregation loop and the return of aggregate_by_step
Aggregate ==
    /\ pc = "pool"
    /\ results' = AggregateSteps(by_second, steps)
    /\ pc' = "aggregated"
    /\ UNCHANGED <<csv_exists, args, by_second, steps, target_rps, t_offset,
                   i, last_ok, first_saturated, outcome, exit_status,
                   rps_line, files>>
    /\ UNCHANGED avars

\* main: if not steps: sys.exit(1)
MappingFailure ==
    /\ pc = "aggregated"
    /\ results = <<>>
    /\ Exit("mapping")
    /\ UNCHANGED <<csv_exists, args, by_second, steps, target_rps, t_offset,
                   results, i, last_ok, first_saturated, rps_line, files>>
    /\ UNCHANGED avars

\* find_saturation_point is entered: both pointers None
ScanStart ==
    /\ pc = "aggregated"
    /\ results # <<>>
    /\ last_ok' = 0
    /\ first_saturated' = 0
    /\ i' = 1
    /\ pc' = "scan"
    /\ UNCHANGED <<csv_exists, args, by_second, steps, target_rps, t_offset,
                   results, outcome, exit_status, rps_line, files>>
    /\ UNCHANGED avars

\* variant: every saturated step overwrites first_saturated
ScanStepOverwrites ==
    /\ pc = "scan"
    /\ i <= Len(results)
    /\ IF Saturated(results[i], args.err_threshold, args.p99_threshold)
       THEN /\ first_saturated' = i
            /\ last_ok' = last_ok
       ELSE /\ last_ok' = i
            /\ first_saturated' = first_saturated
    /\ i' = i + 1
    /\ UNCHANGED <<pc, csv_exists, args, by_second, steps, target_rps,
                   t_offset, results, outcome, exit_status, rps_line, files>>
    /\ UNCHANGED avars

\* variant: last_ok keeps the first compliant step
ScanStepKeepsFirstOk ==
    /\ pc = "scan"
    /\ i <= Len(results)
    /\ IF Saturated(results[i], args.err_threshold, args.p99_threshold)
       THEN /\ first_saturated' = IF first_saturated = 0 THEN i
                                  ELSE first_saturated
            /\ last_ok' = last_ok
       ELSE /\ last_ok' = IF last_ok = 0 THEN i ELSE last_ok
            /\ first_saturated' = first_saturated
    /\ i' = i + 1
    /\ UNCHANGED <<pc, csv_exists, args, by_second, steps, target_rps,
                   t_offset, results, outcome, exit_status, rps_line, files>>
    /\ UNCHANGED avars

\* variant: last_ok is frozen once a step has saturated
ScanStepStopsAtBreach ==
    /\ pc = "scan"
    /\ i <= Len(results)
    /\ IF Saturated(results[i], args.err_threshold, args.p99_threshold)
       THEN /\ first_saturated' = IF first_saturated = 0 THEN i
                                  ELSE first_saturated
            /\ last_ok' = last_ok
       ELSE /\ last_ok' = IF first_saturated = 0 THEN i ELSE last_ok
            /\ first_saturated' = first_saturated
    /\ i' = i + 1
    /\ UNCHANGED <<pc, csv_exists, args, by_second, steps, target_rps,
                   t_offset, results, outcome, exit_status, rps_line, files>>
    /\ UNCHANGED avars

\* one iteration of "for s in steps"
ScanStep ==
    /\ pc = "scan"
    /\ i <= Len(results)
    /\ IF Saturated(results[i], args.err_threshold, args.p99_threshold)
       THEN /\ first_saturated' = IF first_saturated = 0 THEN i
                                  ELSE first_saturated
            /\ last_ok' = last_ok
       ELSE /\ last_ok' = i
            /\ first_saturated' = first_saturated
    /\ i' = i + 1
    /\ UNCHANGED <<pc, csv_exists, args, by_second, steps, target_rps,
                   t_offset, results, outcome, exit_status, rps_line, files>>
    /\ UNCHANGED avars

\* return last_ok, first_saturated
ScanReturn ==
    /\ pc = "scan"
    /\ i > Len(results)
    /\ pc' = "verdict"
    /\ UNCHANGED <<csv_exists, args, by_second, steps, target_rps, t_offset,
                   results, i, last_ok, first_saturated, outcome, exit_status,
                   rps_line, files>>
    /\ UNCHANGED avars

\* main after the detector: table, optional CSV and plot, exit status
Report ==
    /\ pc = "verdict"
    /\ \E framework \in {"", "express"}, plot \in BOOLEAN,
          matplotlib \in BOOLEAN :
          files' = (IF framework # "" THEN {"analysis_csv"} ELSE {})
                   \cup (IF plot /\ matplotlib THEN {"plot_png"} ELSE {})
    /\ IF last_ok # 0
       THEN /\ rps_line' = <<results[last_ok].target_rps>>
            /\ Exit("sustainable")
       ELSE /\ rps_line' = rps_line
            /\ Exit("saturated")
    /\ UNCHANGED <<csv_exists, args, by_second, steps, target_rps, t_offset,
                   results, i, last_ok, first_saturated>>
    /\ UNCHANGED avars

Next ==
    \/ OpenCsv
    \/ OpenCsvMissing
    \/ ReadRow
    \/ EndOfCsv
    \/ EmptyInput
    \/ GenFirstStep
    \/ GenNextStep
    \/ GenDivideByZero
    \/ GenLoopEnd
    \/ Aggregate
    \/ MappingFailure
    \/ ScanStart
    \/ ScanStep
    \/ ScanReturn
    \/ Report

Spec == Init /\ [][Next]_vars

(***************************************************************************)
(* The same program from the point where load_k6_csv has returned, on      *)
(* traces that a file of more rows yields: one bucket that holds up to     *)
(* MaxPooled duration samples and failure flags, and a long trace of two   *)
(* buckets LongSpan seconds apart.                                         *)
(***************************************************************************)
\* options under which the one-bucket traces are aggregated
PoolArgs ==
    [warmup |-> 0, step_duration |-> 1, ramp_duration |-> 1,
     start_rps |-> 200, step_rps |-> 200,
     err_threshold |-> 1, p99_threshold |-> 1000]

\* options under which the long and the empty trace are mapped
LongArgs ==
    [warmup : {0}, step_duration : {0, 1}, ramp_duration : {0, 1},
     start_rps : {2, 99999}, step_rps : {-1, 1},
     err_threshold : {1}, p99_threshold : {1000}]

\* a second with n requests: n durations, and n failure flags or none
PooledBuckets ==
    UNION { { [durations |-> d, failed |-> f, reqs |-> n] :
                d \in [1..n -> {10, 20, 30, 900}],
                f \in [1..n -> {0, 1}] \cup {<<>>} } : n \in 0..MaxPooled }
    \cup { [durations |-> <<>>, failed |-> <<1>>, reqs |-> 1] }

LongTrace ==
    [t \in {0, LongSpan} |-> [durations |-> <<5>>, failed |-> <<0>>,
                              reqs |-> 1]]

LoadedInputs ==
    { [args |-> PoolArgs, by_second |-> [t \in {0} |-> b]] :
        b \in PooledBuckets \ {EmptyBucket} }
    \cup { [args |-> a, by_second |-> bs] :
             a \in LongArgs, bs \in {<<>>, LongTrace} }

InitLoaded ==
    /\ pc = "loaded"
    /\ csv_exists = TRUE
    /\ \E in \in LoadedInputs :
          /\ args = in.args
          /\ by_second = in.by_second
    /\ steps = <<>>
    /\ target_rps = 0
    /\ t_offset = 0
    /\ results = <<>>
    /\ i = 0
    /\ last_ok = 0
    /\ first_saturated = 0
    /\ outcome = "running"
    /\ exit_status = -1
    /\ rps_line = <<>>
    /\ files = {}
    /\ AnalyzeIdle

NextLoaded ==
    \/ EmptyInput
    \/ GenFirstStep
    \/ GenNextStep
    \/ GenDivideByZero
    \/ GenLoopEnd
    \/ Aggregate
    \/ MappingFailure
    \/ ScanStart
    \/ ScanStep
    \/ ScanReturn
    \/ Report

SpecLoaded == InitLoaded /\ [][NextLoaded]_vars

(***************************************************************************)
(* Vocabulary of the properties.                                           *)
(***************************************************************************)
\* generation of the step list has finished normally
GenerationDone ==
    \/ pc \in {"pool", "aggregated", "scan", "verdict"}
    \/ pc = "exit" /\ outcome \in {"mapping", "sustainable", "saturated"}

\* aggregate_by_step has returned its result list
AggregationDone ==
    \/ pc \in {"aggregated", "scan", "verdict"}
    \/ pc = "exit" /\ outcome \in {"mapping", "sustainable", "saturated"}

\* find_saturation_point has returned
ScanDone ==
    \/ pc = "verdict"
    \/ pc = "exit" /\ outcome \in {"sustainable", "saturated"}

\* output step k breaches a threshold / satisfies both thresholds
Breaches(k) ==
    \/ results[k].err_pct.n >= args.err_threshold * results[k].err_pct.d
    \/ results[k].p99_ms >= args.p99_threshold

Complies(k) ==
    /\ results[k].err_pct.n < args.err_threshold * results[k].err_pct.d
    /\ results[k].p99_ms < args.p99_threshold

BreachingIn(S) == { k \in S : Breaches(k) }
CompliantIn(S) == { k \in S : Complies(k) }
AllOutput == 1..Len(results)

\* the steps the scan has already visited
Scanned == 1..(i - 1)

Span == t_max - t_min
Period == args.step_duration + args.ramp_duration

(***************************************************************************)
(* C1: during the scan first_saturated is always the earliest breaching    *)
(* step among the steps visited so far (None, i.e. 0, when none of them    *)
(* breaches), so its final value is the earliest breaching step of the     *)
(* whole sequence; and once it is set no step of the program changes it.   *)
(***************************************************************************)
C1_FirstSaturatedEarliestAndFrozen ==
    /\ [](pc \in {"scan", "verdict"} \/ ScanDone =>
            /\ first_saturated =
                 (IF BreachingIn(Scanned) = {} THEN 0
                  ELSE Min(BreachingIn(Scanned)))
            /\ (ScanDone => Scanned = AllOutput))
    /\ [][first_saturated # 0 => first_saturated' = first_saturated]_vars

\* the scan has passed a second breaching step after first_saturated
C1_Witness ==
    /\ pc = "verdict"
    /\ first_saturated > 1
    /\ \E k \in AllOutput : k > first_saturated /\ Breaches(k)

(***************************************************************************)
(* C2: when the detector has returned, last_ok is None iff no output step  *)
(* satisfies both thresholds, first_saturated is None iff no output step   *)
(* breaches one, and a last_ok that is set is the last compliant step.     *)
(***************************************************************************)
C2_NoneIffNoSuchStep ==
    ScanDone =>
        /\ (last_ok = 0) <=> (CompliantIn(AllOutput) = {})
        /\ (first_saturated = 0) <=> (BreachingIn(AllOutput) = {})
        /\ last_ok # 0 => last_ok = Max(CompliantIn(AllOutput))

\* no step complied: last_ok is None after a scan of several steps, one of
\* them exactly on the p99 threshold
C2_Witness ==
    /\ pc = "verdict"
    /\ last_ok = 0
    /\ Len(results) >= 2
    /\ \E k \in AllOutput : results[k].p99_ms = args.p99_threshold

(***************************************************************************)
(* C3: the sustainable rate that is reported (the target rate of last_ok)  *)
(* is the highest target rate among the compliant output steps.            *)
(***************************************************************************)
C3_SustainableIsHighestCompliant ==
    ScanDone /\ last_ok # 0 =>
        /\ \A k \in CompliantIn(AllOutput) :
              results[k].target_rps <= results[last_ok].target_rps
        /\ (pc = "exit" => rps_line = <<results[last_ok].target_rps>>)

\* two compliant steps of different rates, the higher one reported
C3_Witness ==
    /\ pc = "exit"
    /\ last_ok # 0
    /\ \E k \in CompliantIn(AllOutput) :
          results[k].target_rps < results[last_ok].target_rps

(***************************************************************************)
(* C4 as stated: when a compliant step follows the first breaching step,   *)
(* last_ok is the last such step, it lies after first_saturated, and the   *)
(* sustainable rate is above the saturation rate.                          *)
(***************************************************************************)
C4_Original ==
    ScanDone /\ first_saturated # 0
             /\ (\E k \in CompliantIn(AllOutput) : k > first_saturated) =>
        /\ last_ok = Max(CompliantIn(AllOutput))
        /\ last_ok > first_saturated
        /\ results[last_ok].target_rps > results[first_saturated].target_rps

(***************************************************************************)
(* C4 amended: when a compliant step follows the first breaching step,     *)
(* last_ok is the last such step and lies after first_saturated; the       *)
(* sustainable rate is then not below the saturation rate, and above it    *)
(* when the rate increment is positive.                                    *)
(***************************************************************************)
C4_LastOkAfterFirstSaturated ==
    ScanDone /\ first_saturated # 0
             /\ (\E k \in CompliantIn(AllOutput) : k > first_saturated) =>
        /\ last_ok = Max(CompliantIn(AllOutput))
        /\ last_ok > first_saturated
        /\ results[last_ok].target_rps >= results[first_saturated].target_rps
        /\ (args.step_rps > 0 =>
              results[last_ok].target_rps
                 > results[first_saturated].target_rps)

\* a step breached, a later step complied, and the scan went on to it
C4_Witness ==
    /\ pc = "verdict"
    /\ first_saturated # 0
    /\ last_ok > first_saturated
    /\ results[last_ok].target_rps > results[first_saturated].target_rps

(***************************************************************************)
(* C5: once the detector has been reached the process ends with status 0   *)
(* iff last_ok is set and with status 2 iff no step complied, and the line *)
(* RPS_MAX_SUSTAINABLE=<rate> is printed exactly when the status is 0.     *)
(***************************************************************************)
C5_ExitStatusTellsVerdict ==
    /\ (rps_line # <<>> => pc = "exit" /\ exit_status = 0)
    /\ (pc = "exit" /\ outcome \in {"sustainable", "saturated"} =>
            /\ exit_status \in {0, 2}
            /\ (exit_status = 0) <=> (last_ok # 0)
            /\ (exit_status = 2) <=> (CompliantIn(AllOutput) = {})
            /\ (rps_line # <<>>) <=> (exit_status = 0)
            /\ (exit_status = 0 =>
                  rps_line = <<results[last_ok].target_rps>>))

\* a run that ended with status 2 after a scan that found a breach
C5_Witness ==
    /\ pc = "exit"
    /\ exit_status = 2
    /\ first_saturated # 0
    /\ rps_line = <<>>

(***************************************************************************)
(* C6 as stated: each of the three fatal conditions ends the process with  *)
(* a status of its own, different from the statuses of the other fatal     *)
(* conditions and of the two verdicts, and writes no file.                 *)
(***************************************************************************)
C6_FatalStatusesDistinct ==
    pc = "exit" /\ outcome \in {"missing", "empty", "mapping"} =>
        /\ \A o \in {"missing", "empty", "mapping", "sustainable",
                     "saturated"} \ {outcome} :
              exit_status # ExitStatusFor(o)
        /\ files = {}

(***************************************************************************)
(* C7 as stated: every generated step ends within the trace, and the       *)
(* trace of seconds 100..179 under the default options yields exactly the  *)
(* two steps 200 [110,140] and 400 [142,172].                              *)
(***************************************************************************)
C7_Original ==
    GenerationDone =>
        /\ \A k \in 1..Len(steps) : steps[k].t_end <= t_max
        /\ (args = DefaultArgs /\ t_min = 100 /\ t_max = 179 =>
              steps = << [target_rps |-> 200, t_start |-> 110, t_end |-> 140],
                         [target_rps |-> 400, t_start |-> 142, t_end |-> 172] >>)

(***************************************************************************)
(* C7 amended: generation stops when the index of the step just generated  *)
(* reaches the number of whole (step + ramp) periods of the span, and      *)
(* never before the second step: for a positive increment and a positive   *)
(* period it generates 1 + max(1, span // period) steps unless a safety    *)
(* limit cuts it short, step k (from 0) covering                           *)
(* [t_min + warmup + k * period, + step_duration], so every step from the  *)
(* third on starts no later than t_max + warmup but may end after t_max.   *)
(* The trace of seconds 100..179 under the default options yields three    *)
(* steps: 200 [110,140], 400 [142,172] and 600 [174,204].                  *)
(***************************************************************************)
C7_StepsFollowWholePeriods ==
    GenerationDone /\ args.step_rps > 0 /\ Period > 0 =>
        /\ \A k \in 1..Len(steps) :
              /\ steps[k].t_start = t_min + args.warmup + (k - 1) * Period
              /\ steps[k].t_end = steps[k].t_start + args.step_duration
              /\ (k >= 3 => steps[k].t_start - args.warmup <= t_max)
        /\ (Len(steps) <= SafetySteps
               /\ steps[Len(steps)].target_rps + args.step_rps <= RpsCeiling =>
              Len(steps) = 1 + (IF Span \div Period > 1
                                THEN Span \div Period ELSE 1))
        /\ (args = DefaultArgs /\ t_min = 100 /\ t_max = 179 =>
              steps = << [target_rps |-> 200, t_start |-> 110, t_end |-> 140],
                         [target_rps |-> 400, t_start |-> 142, t_end |-> 172],
                         [target_rps |-> 600, t_start |-> 174, t_end |-> 204] >>)

\* the scenario trace has been mapped, its last step ending after the trace
C7_Witness ==
    /\ pc = "pool"
    /\ args = DefaultArgs
    /\ t_min = 100
    /\ t_max = 179
    /\ Len(steps) = 3
    /\ steps[3].t_end > t_max

(***************************************************************************)
(* C8 as stated: for every configuration the target rates of the generated *)
(* steps are start_rps, start_rps + step_rps, ... and strictly increase.   *)
(***************************************************************************)
C8_Original ==
    /\ \A k \in 1..Len(steps) :
          steps[k].target_rps = args.start_rps + (k - 1) * args.step_rps
    /\ \A k \in 1..(Len(steps) - 1) :
          steps[k].target_rps < steps[k + 1].target_rps

(***************************************************************************)
(* C8 amended: the target rates of the generated steps are always the      *)
(* arithmetic sequence start_rps, start_rps + step_rps, ...; it strictly   *)
(* increases when the increment is positive.  With an increment of 0 two   *)
(* steps of the same rate are generated, with a negative one a single      *)
(* step.                                                                   *)
(***************************************************************************)
C8_RatesArithmetic ==
    /\ \A k \in 1..Len(steps) :
          steps[k].target_rps = args.start_rps + (k - 1) * args.step_rps
    /\ (args.step_rps > 0 =>
          \A k \in 1..(Len(steps) - 1) :
              steps[k].target_rps < steps[k + 1].target_rps)
    /\ (GenerationDone /\ args.step_rps = 0 => Len(steps) = 2)
    /\ (GenerationDone /\ args.step_rps < 0 => Len(steps) = 1)

\* three or more steps generated with a positive increment
C8_Witness ==
    /\ GenerationDone
    /\ args.step_rps > 0
    /\ Len(steps) >= 3

(***************************************************************************)
(* C9 as stated: consecutive generated steps satisfy                       *)
(* t_end(k) < t_start(k+1), so no bucket lies in the inclusive window of   *)
(* more than one step, whatever the ramp duration (0 included).            *)
(***************************************************************************)
C9_WindowsDisjoint ==
    GenerationDone =>
        /\ \A k \in 1..(Len(steps) - 1) :
              steps[k].t_end < steps[k + 1].t_start
        /\ \A t \in DOMAIN by_second :
              Cardinality({ k \in 1..Len(steps) :
                              steps[k].t_start <= t /\ t <= steps[k].t_end })
                 <= 1

(***************************************************************************)
(* C10: when the span of the trace is shorter than warm-up plus one step   *)
(* duration and the ramp is not negative, aggregate_by_step returns at     *)
(* most one step.                                                          *)
(***************************************************************************)
C10_ShortTraceAtMostOneStep ==
    AggregationDone /\ Span < args.warmup + args.step_duration
                    /\ args.ramp_duration >= 0 =>
        Len(results) <= 1

\* a short trace for which two steps were generated and one was kept
C10_Witness ==
    /\ pc = "aggregated"
    /\ Span < args.warmup + args.step_duration
    /\ Len(steps) >= 2
    /\ Len(results) = 1

(***************************************************************************)
(* Vocabulary of the properties of the aggregation.                        *)
(***************************************************************************)
\* the duration samples step k pools, in time order
DurationsOf(k) == PoolDurations(by_second, steps[k].t_start, steps[k].t_end)
FailedOf(k) == PoolFailed(by_second, steps[k].t_start, steps[k].t_end)

\* the values of a sequence
Range(q) == { q[j] : j \in 1..Len(q) }

\* some bucket of the inclusive window of the step holds a duration sample
HasDurationSample(st) ==
    \E t \in DOMAIN by_second :
        /\ st.t_start <= t
        /\ t <= st.t_end
        /\ by_second[t].durations # <<>>

\* number of duration samples in the buckets of seconds S
RECURSIVE CountDurations(_)
CountDurations(S) ==
    IF S = {} THEN 0
    ELSE LET t == CHOOSE x \in S : TRUE
         IN Len(by_second[t].durations) + CountDurations(S \ {t})

\* the step list a second call of aggregate_by_step builds from the mapping
\* as it is now
RECURSIVE RegenerateFrom(_, _, _)
RegenerateFrom(target, offset, acc) ==
    IF ~LoopGuard(target) THEN acc
    ELSE LET more == Append(acc, NewStep(target,
                                         offset + args.ramp_duration))
             next_offset == offset + args.ramp_duration + args.step_duration
         IN IF SpanBreak(target) THEN more
            ELSE IF target + args.step_rps > RpsCeiling THEN more
            ELSE RegenerateFrom(target + args.step_rps, next_offset, more)

RegeneratedSteps ==
    RegenerateFrom(args.start_rps + args.step_rps,
                   args.warmup + args.step_duration,
                   <<NewStep(args.start_rps, args.warmup)>>)

(***************************************************************************)
(* C11: for the pooled durations of every step that has some, pct(100) is  *)
(* the largest sample, pct(0) the smallest, pct is non-decreasing in p     *)
(* over 0..100, and the reported percentiles satisfy p50 <= p95 <= p99.    *)
(***************************************************************************)
C11_PercentilesOrdered ==
    pc = "aggregated" =>
        /\ \A k \in 1..Len(steps) :
              DurationsOf(k) # <<>> =>
                LET sorted == Sorted(DurationsOf(k))
                IN /\ pct(sorted, 100) = Max(Range(DurationsOf(k)))
                   /\ pct(sorted, 0) = Min(Range(DurationsOf(k)))
                   /\ \A p \in 0..99 : pct(sorted, p) <= pct(sorted, p + 1)
        /\ \A k \in 1..Len(results) :
              /\ results[k].p50_ms <= results[k].p95_ms
              /\ results[k].p95_ms <= results[k].p99_ms

\* a step pooled unsorted samples and its median is below its p99
C11_Witness ==
    /\ pc = "aggregated"
    /\ Len(results) >= 1
    /\ DurationsOf(1) = <<900, 10, 30, 20>>
    /\ results[1].p50_ms < results[1].p99_ms

(***************************************************************************)
(* C12 as stated: the step that pools failure flags [0,0,1,0] and          *)
(* durations [10,20,30,900] reports err_pct = 25.0, p50_ms = 20 and        *)
(* p99_ms = 900.                                                           *)
(***************************************************************************)
C12_Original ==
    pc = "aggregated" /\ Len(steps) >= 1
                      /\ FailedOf(1) = <<0, 0, 1, 0>>
                      /\ DurationsOf(1) = <<10, 20, 30, 900>> =>
        /\ Len(results) >= 1
        /\ results[1].err_pct.n = 25 * results[1].err_pct.d
        /\ results[1].p50_ms = 20
        /\ results[1].p99_ms = 900

(***************************************************************************)
(* C12 amended: the step that pools failure flags [0,0,1,0] and durations  *)
(* [10,20,30,900] reports err_pct = 25.0, p50_ms = 30 (index               *)
(* floor(0.5 * 4) = 2 of the sorted samples) and p99_ms = 900.             *)
(***************************************************************************)
C12_ScenarioStatistics ==
    pc = "aggregated" /\ Len(steps) >= 1
                      /\ FailedOf(1) = <<0, 0, 1, 0>>
                      /\ DurationsOf(1) = <<10, 20, 30, 900>> =>
        /\ Len(results) >= 1
        /\ results[1].err_pct.n = 25 * results[1].err_pct.d
        /\ results[1].p50_ms = 30
        /\ results[1].p99_ms = 900

\* the scenario step has been aggregated
C12_Witness ==
    /\ pc = "aggregated"
    /\ Len(results) >= 1
    /\ FailedOf(1) = <<0, 0, 1, 0>>
    /\ DurationsOf(1) = <<10, 20, 30, 900>>
    /\ results[1].n_samples = 4

(***************************************************************************)
(* C13: the result of aggregate_by_step is the list of the generated steps *)
(* that have a duration sample in a bucket of their inclusive window, in   *)
(* generation order; the other steps are dropped, failure or request       *)
(* samples notwithstanding, and every reported step has n_samples >= 1.    *)
(***************************************************************************)
C13_KeptIffDurationSample ==
    AggregationDone =>
        LET kept == SelectSeq(steps, HasDurationSample)
        IN /\ Len(results) = Len(kept)
           /\ \A k \in 1..Len(results) :
                 /\ results[k].target_rps = kept[k].target_rps
                 /\ results[k].n_samples >= 1
                 /\ results[k].n_samples =
                      CountDurations({ t \in DOMAIN by_second :
                                         /\ kept[k].t_start <= t
                                         /\ t <= kept[k].t_end })

\* the first step had only a failure sample in its window and was dropped,
\* a later step was kept
C13_Witness ==
    /\ pc = "aggregated"
    /\ Len(steps) >= 2
    /\ Len(results) >= 1
    /\ ~HasDurationSample(steps[1])
    /\ FailedOf(1) # <<>>
    /\ results[1].target_rps > steps[1].target_rps

(***************************************************************************)
(* C14: aggregation leaves the bucket mapping as it was (same keys, same   *)
(* buckets: no bucket appears for a second of a window that had none), and *)
(* running it again on the mapping and the options yields the same         *)
(* StepStats list.                                                         *)
(***************************************************************************)
C14_AggregationPureAndRepeatable ==
    /\ [][pc \notin {"start", "read"} => by_second' = by_second]_vars
    /\ [](AggregationDone =>
            /\ steps = RegeneratedSteps
            /\ results = AggregateSteps(by_second, RegeneratedSteps))

\* a window with a second that has no bucket was aggregated
C14_Witness ==
    /\ pc = "aggregated"
    /\ results # <<>>
    /\ \E k \in 1..Len(steps) :
          /\ HasDurationSample(steps[k])
          /\ \E t \in steps[k].t_start..steps[k].t_end :
                t \notin DOMAIN by_second

(***************************************************************************)
(* C18 as stated: for every trace and every integer configuration step     *)
(* generation ends normally, without an exception, with at most 101 steps, *)
(* stopped by the number of whole periods of the span or by a safety       *)
(* limit.                                                                  *)
(***************************************************************************)
C18_GenerationTerminatesNormally ==
    /\ outcome # "crash"
    /\ Len(steps) <= SafetySteps + 1
    /\ (GenerationDone /\ Len(steps) >= 2 =>
          \/ SpanBreak(steps[Len(steps)].target_rps)
          \/ steps[Len(steps)].target_rps + args.step_rps > RpsCeiling
          \/ ~LoopGuard(steps[Len(steps)].target_rps + args.step_rps))

(***************************************************************************)
(* analyze-results.py                                                      *)
(*                                                                         *)
(* Units: power is held in milliwatts, so that the floor 0.001 W is 1 and  *)
(* the proxy cpu_med * 0.01 W is cpu_med * 10; the hourly cost 0.0416 USD  *)
(* is held in 1/10000 USD.  rps_extrap, rps_per_watt and rps_per_usd are   *)
(* exact fractions [n, d] in lowest terms with d > 0 (rps_per_watt per     *)
(* watt, rps_per_usd per USD).  The values of the rows are even, so that the mean of the two *)
(* middle values that statistics.median takes for an even number of runs   *)
(* is an integer.  The dict of variants keeps insertion order: data and    *)
(* metrics are sequences in order of first appearance.  The latency,       *)
(* memory and error columns and the standard deviations, which no ranking  *)
(* and no flag reads, are left out.                                        *)
(***************************************************************************)
\* rows of summary.csv
MaxRuns == 3

\* AWS_T3_MEDIUM_USD_PER_HOUR = 0.0416 = 26/625
UsdPerHourNum == 26
UsdPerHourDen == 625
\* max(..., 0.001)
PowerFloor == 1
\* cpu_med * 0.01 * 1.0
ProxyPerPct == 10

\* the rows a summary.csv of each kind can hold
SummaryRows(kind) ==
    IF kind = "scenario"
    THEN { [framework |-> "express", rps |-> 100, power_watts |-> 10000,
            cpu_pct |-> 50],
           [framework |-> "fastify", rps |-> 200, power_watts |-> 10000,
            cpu_pct |-> 50],
           [framework |-> "elysia", rps |-> 300, power_watts |-> 10000,
            cpu_pct |-> 50] }
    ELSE [framework : {"express", "fastify"}, rps : {100, 200},
          power_watts : {0, 10000}, cpu_pct : {0, 50}]

\* --baseline-power (0: not given or not positive) and the power_watts of
\* baseline.json (empty: no such file)
CliBaselines == {0, 20000}
BaselineFiles == {<<>>, <<5000>>}

\* the rows read so far
RECURSIVE RunsIn(_)
RunsIn(d) == IF d = <<>> THEN 0 ELSE Len(Head(d).runs) + RunsIn(Tail(d))

\* data[fw].append({...})
AddRun(d, row) ==
    LET run == [rps |-> row.rps, power_watts |-> row.power_watts,
                cpu_pct |-> row.cpu_pct]
    IN IF \E k \in 1..Len(d) : d[k].framework = row.framework
       THEN [k \in 1..Len(d) |->
               IF d[k].framework = row.framework
               THEN [d[k] EXCEPT !.runs = Append(@, run)]
               ELSE d[k]]
       ELSE Append(d, [framework |-> row.framework, runs |-> <<run>>])

\* load_baseline
BaselineOf(cli_baseline, baseline_json) ==
    IF cli_baseline > 0 THEN cli_baseline
    ELSE IF baseline_json # <<>> THEN baseline_json[1]
    ELSE 0

\* statistics.median
median(xs) ==
    LET sorted == Sorted(xs)
        n == Len(sorted)
    IN IF n % 2 = 1 THEN sorted[(n + 1) \div 2]
       ELSE (sorted[n \div 2] + sorted[n \div 2 + 1]) \div 2

\* variant: no floor under the measured net power
NetPowerNoFloor(power_med, cpu_med, baseline_power_w) ==
    IF power_med = 0
    THEN (IF cpu_med * ProxyPerPct > PowerFloor
          THEN cpu_med * ProxyPerPct ELSE PowerFloor)
    ELSE power_med - baseline_power_w

\* net_power_w
NetPower(power_med, cpu_med, baseline_power_w) ==
    IF power_med = 0
    THEN (IF cpu_med * ProxyPerPct > PowerFloor
          THEN cpu_med * ProxyPerPct ELSE PowerFloor)
    ELSE (IF power_med - baseline_power_w > PowerFloor
          THEN power_med - baseline_power_w ELSE PowerFloor)

RECURSIVE GCD(_, _)
GCD(a, b) == IF b = 0 THEN a ELSE GCD(b, a % b)

\* the value n/d of a division, in lowest terms with the sign on n
Frac(n, d) ==
    LET g == GCD(IF n < 0 THEN -n ELSE n, IF d < 0 THEN -d ELSE d)
        sign == IF d < 0 THEN -1 ELSE 1
    IN [n |-> (sign * n) \div g, d |-> (sign * d) \div g]

\* the body of "for fw, runs in data.items()"
MetricsOf(entry, baseline_power_w) ==
    LET runs == entry.runs
        rps_med == median([k \in 1..Len(runs) |-> runs[k].rps])
        power_med == median([k \in 1..Len(runs) |-> runs[k].power_watts])
        cpu_med == median([k \in 1..Len(runs) |-> runs[k].cpu_pct])
        net_power_w == NetPower(power_med, cpu_med, baseline_power_w)
        rps_extrap == IF cpu_med > 0
                      THEN Frac(rps_med * 100, cpu_med)
                      ELSE Frac(rps_med, 1)
    IN [framework      |-> entry.framework,
        rps_median     |-> rps_med,
        power_watts    |-> power_med,
        net_power_w    |-> net_power_w,
        cpu_pct        |-> cpu_med,
        rps_extrap     |-> rps_extrap,
        rps_per_watt   |-> Frac(rps_med * 1000, net_power_w),
        rps_per_usd    |-> Frac(rps_extrap.n * UsdPerHourDen,
                                rps_extrap.d * UsdPerHourNum),
        rapl_available |-> power_med # 0,
        n_runs         |-> Len(runs)]

\* compute_metrics
compute_metrics(d, baseline_power_w) ==
    [k \in 1..Len(d) |-> MetricsOf(d[k], baseline_power_w)]

\* metrics[fw][key], as a fraction
KeyOf(m, key) ==
    CASE key = "rps_median"   -> [n |-> m.rps_median, d |-> 1]
      [] key = "rps_per_watt" -> m.rps_per_watt
      [] key = "rps_per_usd"  -> m.rps_per_usd

FracLess(a, b) == a.n * b.d < b.n * a.d

\* variant: a variant is put before the earlier variants it ties with
RECURSIVE InsertDescendingTiesFirst(_, _, _, _)
InsertDescendingTiesFirst(ms, key, x, r) ==
    IF r = <<>> THEN <<x>>
    ELSE IF ~FracLess(KeyOf(ms[x], key), KeyOf(ms[Head(r)], key))
         THEN <<x>> \o r
         ELSE <<Head(r)>> \o InsertDescendingTiesFirst(ms, key, x, Tail(r))

\* sorted(..., reverse=True) is stable: position x, later in the dict than
\* the positions of r, goes behind every position whose key is not smaller
RECURSIVE InsertDescending(_, _, _, _)
InsertDescending(ms, key, x, r) ==
    IF r = <<>> THEN <<x>>
    ELSE IF FracLess(KeyOf(ms[Head(r)], key), KeyOf(ms[x], key))
         THEN <<x>> \o r
         ELSE <<Head(r)>> \o InsertDescending(ms, key, x, Tail(r))

RECURSIVE SortDescending(_, _, _)
SortDescending(ms, key, n) ==
    IF n = 0 THEN <<>>
    ELSE InsertDescending(ms, key, n, SortDescending(ms, key, n - 1))

\* rank(metrics, key)
rank(ms, key) ==
    LET order == SortDescending(ms, key, Len(ms))
    IN [k \in 1..Len(ms) |-> ms[order[k]].framework]

\* variant: the flag asks both rankings to differ
format_tableBothDiffer(ms) ==
    LET rank_rps == rank(ms, "rps_median")
        rank_rpsw == rank(ms, "rps_per_watt")
        rank_rpsusd == rank(ms, "rps_per_usd")
    IN [rank_rps    |-> rank_rps,
        rank_rpsw   |-> rank_rpsw,
        rank_rpsusd |-> rank_rpsusd,
        hypothesis_confirmed |->
            (rank_rps # rank_rpsw) /\ (rank_rps # rank_rpsusd),
        rapl_caveat |-> ~ms[1].rapl_available]

\* what format_table derives from the metrics: the three rankings, the
\* hypothesis flag and whether the RAPL caveat is among the lines
format_table(ms) ==
    LET rank_rps == rank(ms, "rps_median")
        rank_rpsw == rank(ms, "rps_per_watt")
        rank_rpsusd == rank(ms, "rps_per_usd")
    IN [rank_rps    |-> rank_rps,
        rank_rpsw   |-> rank_rpsw,
        rank_rpsusd |-> rank_rpsusd,
        hypothesis_confirmed |->
            (rank_rps # rank_rpsw) \/ (rank_rps # rank_rpsusd),
        rapl_caveat |-> ~ms[1].rapl_available]

InitAnalyze ==
    /\ pc = "off"
    /\ csv_exists = FALSE
    /\ args = DefaultArgs
    /\ by_second = <<>>
    /\ steps = <<>>
    /\ target_rps = 0
    /\ t_offset = 0
    /\ results = <<>>
    /\ i = 0
    /\ last_ok = 0
    /\ first_saturated = 0
    /\ outcome = "running"
    /\ exit_status = -1
    /\ rps_line = <<>>
    /\ files = {}
    /\ apc = "start"
    /\ summary_csv \in {"absent", "runs", "scenario"}
    /\ data = <<>>
    /\ baseline_power = 0
    /\ metrics = <<>>
    /\ table = <<>>
    /\ analyze_exit = -1

\* load_summary: summary.csv is there and is opened
OpenSummary ==
    /\ apc = "start"
    /\ summary_csv # "absent"
    /\ apc' = "read"
    /\ UNCHANGED <<summary_csv, data, baseline_power, metrics, table,
                   analyze_exit>>
    /\ UNCHANGED svars

\* load_summary: if not csv_path.exists(): sys.exit(1)
SummaryMissing ==
    /\ apc = "start"
    /\ summary_csv = "absent"
    /\ apc' = "exit"
    /\ analyze_exit' = 1
    /\ UNCHANGED <<summary_csv, data, baseline_power, metrics, table>>
    /\ UNCHANGED svars

\* one row of summary.csv
ReadSummaryRow ==
    /\ apc = "read"
    /\ RunsIn(data) < MaxRuns
    /\ \E row \in SummaryRows(summary_csv) : data' = AddRun(data, row)
    /\ UNCHANGED <<apc, summary_csv, baseline_power, metrics, table,
                   analyze_exit>>
    /\ UNCHANGED svars

\* a row with a field that int() or float() rejects: ValueError, uncaught
ReadSummaryRowMalformed ==
    /\ apc = "read"
    /\ apc' = "crash"
    /\ analyze_exit' = 1
    /\ UNCHANGED <<summary_csv, data, baseline_power, metrics, table>>
    /\ UNCHANGED svars

\* end of file: return dict(data)
EndOfSummary ==
    /\ apc = "read"
    /\ apc' = "loaded"
    /\ UNCHANGED <<summary_csv, data, baseline_power, metrics, table,
                   analyze_exit>>
    /\ UNCHANGED svars

\* main: if not data: sys.exit(1)
NoData ==
    /\ apc = "loaded"
    /\ data = <<>>
    /\ apc' = "exit"
    /\ analyze_exit' = 1
    /\ UNCHANGED <<summary_csv, data, baseline_power, metrics, table>>
    /\ UNCHANGED svars

\* main: baseline_power = load_baseline(results_dir, args.baseline_power)
LoadBaseline ==
    /\ apc = "loaded"
    /\ data # <<>>
    /\ \E cli_baseline \in CliBaselines, baseline_json \in BaselineFiles :
          baseline_power' = BaselineOf(cli_baseline, baseline_json)
    /\ apc' = "baseline"
    /\ UNCHANGED <<summary_csv, data, metrics, table, analyze_exit>>
    /\ UNCHANGED svars

\* main: metrics = compute_metrics(data, baseline_power)
ComputeMetrics ==
    /\ apc = "baseline"
    /\ metrics' = compute_metrics(data, baseline_power)
    /\ apc' = "computed"
    /\ UNCHANGED <<summary_csv, data, baseline_power, table, analyze_exit>>
    /\ UNCHANGED svars

\* main: table = format_table(metrics, baseline_power)
FormatTable ==
    /\ apc = "computed"
    /\ table' = format_table(metrics)
    /\ apc' = "formatted"
    /\ UNCHANGED <<summary_csv, data, baseline_power, metrics, analyze_exit>>
    /\ UNCHANGED svars

\* main: the table, the CSV, the tests and the charts are written; the
\* script ends
WriteOutputs ==
    /\ apc = "formatted"
    /\ apc' = "done"
    /\ analyze_exit' = 0
    /\ UNCHANGED <<summary_csv, data, baseline_power, metrics, table>>
    /\ UNCHANGED svars

NextAnalyze ==
    \/ OpenSummary
    \/ SummaryMissing
    \/ ReadSummaryRow
    \/ ReadSummaryRowMalformed
    \/ EndOfSummary
    \/ NoData
    \/ LoadBaseline
    \/ ComputeMetrics
    \/ FormatTable
    \/ WriteOutputs

SpecAnalyze == InitAnalyze /\ [][NextAnalyze]_vars

(***************************************************************************)
(* Vocabulary of the properties of analyze-results.py.                     *)
(***************************************************************************)
MetricsDone == apc \in {"computed", "formatted", "done"}
TableDone == apc \in {"formatted", "done"}

\* the position of a variant in a ranking
PosIn(r, fw) == CHOOSE k \in 1..Len(r) : r[k] = fw

SameMedians(a, b) ==
    /\ metrics[a].rps_median = metrics[b].rps_median
    /\ metrics[a].power_watts = metrics[b].power_watts
    /\ metrics[a].cpu_pct = metrics[b].cpu_pct

\* ranking r lists every variant once, by descending key
DescendingBy(r, key) ==
    /\ Len(r) = Len(metrics)
    /\ \A k \in 1..Len(metrics) : \E j \in 1..Len(r) : r[j] = metrics[k].framework
    /\ \A a, b \in 1..Len(metrics) :
          PosIn(r, metrics[a].framework) < PosIn(r, metrics[b].framework)
              => ~FracLess(KeyOf(metrics[a], key), KeyOf(metrics[b], key))

\* C17: a variant is marked rapl_available = False exactly when its median
\* measured power is zero, and whenever some variant is so marked, at any
\* position of the input, the report carries the degraded-instrumentation
\* caveat.
C17_DegradedFlaggedAndSurfaced ==
    TableDone =>
        /\ \A k \in 1..Len(metrics) :
              (metrics[k].rapl_available = FALSE)
                  <=> (metrics[k].power_watts = 0)
        /\ (\E k \in 1..Len(metrics) : ~metrics[k].rapl_available)
              => table.rapl_caveat

\* C16: two variants with identical median throughput, power and CPU% get
\* equal rps_per_watt and equal rps_per_usd and stand, in all three
\* descending rankings, in their order of first appearance in the input;
\* when every variant ties with every other the rankings do not diverge.
C16_TiesKeepInputOrder ==
    TableDone =>
        /\ \A a, b \in 1..Len(metrics) :
              (a < b /\ SameMedians(a, b)) =>
                  /\ metrics[a].rps_per_watt = metrics[b].rps_per_watt
                  /\ metrics[a].rps_per_usd = metrics[b].rps_per_usd
                  /\ \A r \in {table.rank_rps, table.rank_rpsw,
                               table.rank_rpsusd} :
                        PosIn(r, metrics[a].framework)
                            < PosIn(r, metrics[b].framework)
        /\ (\A a, b \in 1..Len(metrics) : SameMedians(a, b))
              => ~table.hypothesis_confirmed

\* two variants that tie, several runs each, ranked
C16_Witness ==
    /\ TableDone
    /\ Len(metrics) = 2
    /\ SameMedians(1, 2)
    /\ \E k \in 1..2 : metrics[k].n_runs > 1
    /\ table.rank_rpsw = <<metrics[1].framework, metrics[2].framework>>

\* C15: the hypothesis flag is true exactly when the descending ranking by
\* median throughput differs from the ranking by RPS/Watt or from the
\* ranking by RPS/USD; when all variants have the same net power and the
\* same positive median CPU% (throughput 100, 200, 300, net power 10 W, CPU
\* 50%) the three rankings are identical and the flag is false.
C15_FlagIffRankingsDiffer ==
    TableDone =>
        /\ DescendingBy(table.rank_rps, "rps_median")
        /\ DescendingBy(table.rank_rpsw, "rps_per_watt")
        /\ DescendingBy(table.rank_rpsusd, "rps_per_usd")
        /\ table.hypothesis_confirmed
              <=> (\/ table.rank_rps # table.rank_rpsw
                   \/ table.rank_rps # table.rank_rpsusd)
        /\ (/\ \A a, b \in 1..Len(metrics) :
                  /\ metrics[a].net_power_w = metrics[b].net_power_w
                  /\ metrics[a].cpu_pct = metrics[b].cpu_pct
            /\ \A a \in 1..Len(metrics) : metrics[a].cpu_pct > 0)
              => /\ table.rank_rps = table.rank_rpsw
                 /\ table.rank_rps = table.rank_rpsusd
                 /\ ~table.hypothesis_confirmed
        /\ (/\ Len(metrics) = 3
            /\ \A k \in 1..3 :
                  /\ metrics[k].rps_median = k * 100
                  /\ metrics[k].net_power_w = 10000
                  /\ metrics[k].cpu_pct = 50)
              => /\ table.rank_rps = <<metrics[3].framework,
                                       metrics[2].framework,
                                       metrics[1].framework>>
                 /\ table.rank_rpsw = table.rank_rps
                 /\ table.rank_rpsusd = table.rank_rps
                 /\ ~table.hypothesis_confirmed

\* the scenario: throughput 100, 200, 300, net power 10 W, CPU 50%
C15_Witness ==
    /\ TableDone
    /\ Len(metrics) = 3
    /\ \A k \in 1..3 :
          /\ metrics[k].rps_median = k * 100
          /\ metrics[k].net_power_w = 10000
          /\ metrics[k].cpu_pct = 50
    /\ table.rank_rps = <<"elysia", "fastify", "express">>
    /\ ~table.hypothesis_confirmed

====
